---- MODULE Spec2Model ----
(***************************************************************************)
(* The three asset pipelines of src/src/loader.rs:                         *)
(*   TextureAtlasBuildLoader::load  (build an atlas from source images),   *)
(*   TextureAtlasSaver::save        (persist an atlas),                    *)
(*   TextureAtlasLoader::load       (load a packed atlas from one image).  *)
(* Each is an async fn; an action of the model is the code between two     *)
(* .await points.  The collaborators the code calls into (the nested image *)
(* loader, TextureAtlasBuilder, the image codec, the Writer) are           *)
(* represented at the call sites by the set of results they can return.    *)
(***************************************************************************)
EXTENDS Integers, Sequences, FiniteSets, TLC

\* ------------------------------------------------------------------ bounds
\* Longest `textures` list of a build descriptor (BuildLoaderConfig).
MaxSources == 3
\* Longest `textures` list of a LoaderSettings given to the direct loader.
MaxEntries == 2

\* TextureAtlasBuilder::default(): the first bin tried and the largest one
\* (256 and 2048 pixels in the library, scaled down here).
InitialSize == 2
MaxSize == 3

\* ------------------------------------------------------------------ values
\* Option<T> is a sequence of at most one element.
None == <<>>
Some(x) == <<x>>

Min(a, b) == IF a <= b THEN a ELSE b

SeqsUpTo(S, n) == UNION {[1..k -> S] : k \in 0..n}

\* The source images a build descriptor can name, and what the nested image
\* loader resolves each of them to.
SourceIds == {"a", "b", "c", "big"}

\* URect { min, max }
URect(x, y, w, h) == [min |-> <<x, y>>, max |-> <<x + w, y + h>>]
Width(r) == r.max[1] - r.min[1]
Height(r) == r.max[2] - r.min[2]

\* An Image: its pixel size and its pixels, as the list of pictures it shows.
SourceImage(id, w, h) ==
    [size |-> <<w, h>>, data |-> <<[px |-> id, at |-> URect(0, 0, w, h)]>>]

Resolve(id) ==
    CASE id = "a"   -> SourceImage("a", 1, 1)
      [] id = "b"   -> SourceImage("b", 2, 1)
      [] id = "c"   -> SourceImage("c", 1, 2)
      [] id = "big" -> SourceImage("big", 4, 1)

Overlap(r, s) ==
    /\ r.min[1] < s.max[1] /\ s.min[1] < r.max[1]
    /\ r.min[2] < s.max[2] /\ s.min[2] < r.max[2]

Inside(r, size) ==
    /\ r.min[1] <= r.max[1] /\ r.max[1] <= size[1]
    /\ r.min[2] <= r.max[2] /\ r.max[2] <= size[2]

\* ------------------------------------------------------- TextureAtlasPaths
\* TextureAtlasPaths::default() and TextureAtlasPaths::add (lib.rs): the path
\* index is an ordered, append-only list of optional source identifiers.
PathsDefault == [path_indices |-> <<>>]

PathsAdd(paths, path) == [path_indices |-> Append(paths.path_indices, path)]

\* ------------------------------------------------------ TextureAtlasBuilder
\* The bins `build` tries: initial_size, doubled and clamped to max_size until
\* max_size has been tried.
RECURSIVE BinSizes(_)
BinSizes(c) ==
    IF c >= MaxSize THEN <<MaxSize>> ELSE <<c>> \o BinSizes(Min(2 * c, MaxSize))

\* Every way to place textures[i..] in a c x c bin beside the rects already
\* placed: rect i has the size of texture i (padding is zero by default), lies
\* in the bin and overlaps no other.
RECURSIVE Place(_, _, _)
Place(textures, c, placed) ==
    IF Len(placed) = Len(textures) THEN {placed}
    ELSE LET img == textures[Len(placed) + 1]
             fits == {r \in {URect(x, y, img.size[1], img.size[2]) :
                                 x \in 0..(c - 1), y \in 0..(c - 1)} :
                        /\ Inside(r, <<c, c>>)
                        /\ \A j \in 1..Len(placed) : ~Overlap(r, placed[j])}
         IN  UNION {Place(textures, c, Append(placed, r)) : r \in fits}

\* The atlas image: every texture copied to its rect.
Composite(textures, rects, c) ==
    [size |-> <<c, c>>,
     data |-> [i \in 1..Len(rects) |->
                  [px |-> textures[i].data[1].px, at |-> rects[i]]]]

\* builder.build(): the first bin in which the textures can be placed gives
\* Ok((layout, sources, texture)); none gives Err(NotEnoughSpace).  With no
\* texture added there is nothing to place and the initial bin is returned.
BuilderBuild(textures) ==
    LET sizes == BinSizes(InitialSize)
        feasible == {k \in 1..Len(sizes) : Place(textures, sizes[k], <<>>) # {}}
    IN  IF feasible = {}
        THEN {[tag |-> "Err", err |-> "NotEnoughSpace"]}
        ELSE LET k == CHOOSE k \in feasible : \A m \in feasible : k <= m
                 c == sizes[k]
             IN  {[tag |-> "Ok",
                   layout |-> [size |-> <<c, c>>, textures |-> rects],
                   texture |-> Composite(textures, rects, c)] :
                      rects \in Place(textures, c, <<>>)}

\* ------------------------------------------------------------- ImageFormat
ImageFormats == {"Png", "Jpeg", "Ktx2"}

\* ImageFormat::to_file_extensions
ToFileExtensions(format) ==
    CASE format = "Png"  -> <<"png">>
      [] format = "Jpeg" -> <<"jpg", "jpeg">>
      [] format = "Ktx2" -> <<"ktx2">>

\* ImageFormat::from_extension, the image loader's ImageFormatSetting::FromExtension
FromExtension(ext) ==
    CASE ext = "png"             -> Some("Png")
      [] ext \in {"jpg", "jpeg"} -> Some("Jpeg")
      [] ext = "ktx2"            -> Some("Ktx2")
      [] OTHER                   -> None

\* ImageFormat::as_image_crate_format: Ktx2 is no format of the image crate.
AsImageCrateFormat(format) == IF format = "Ktx2" THEN None ELSE Some(format)

Lossless(format) == format = "Png"

\* DynamicImage::write_to: the encoded byte stream (a format tag, the pixel
\* size, the pixels), or an encoder error.  A lossy format keeps the size and
\* changes the pixels; its encoder may refuse the image's colour type.
Encoded(image, format) ==
    <<format, image.size,
      IF Lossless(format) THEN image.data
      ELSE [i \in 1..Len(image.data) |-> [px |-> "lossy", at |-> image.data[i].at]]>>

WriteTo(image, format) ==
    {[tag |-> "Ok", bytes |-> Encoded(image, format)]}
        \cup IF Lossless(format) THEN {} ELSE {[tag |-> "Err", bytes |-> <<>>]}

\* The image loader decoding a byte stream as `format`.
Decode(bytes, format) ==
    IF Len(bytes) = 3 /\ bytes[1] = format
    THEN [tag |-> "Ok", image |-> [size |-> bytes[2], data |-> bytes[3]]]
    ELSE [tag |-> "Err", image |-> [size |-> <<0, 0>>, data |-> <<>>]]

\* ------------------------------------------------------------------ inputs
\* Asset paths: only the extension matters to the loaders.
Extensions == {"png", "jpg", "ron"}
AssetPaths == {[stem |-> "atlas", ext |-> e] : e \in Extensions}

\* PathBuf::with_extension
WithExtension(path, ext) == [stem |-> path.stem, ext |-> ext]

\* LoaderSettings a caller can hand to the direct loader.
EntryRects == {URect(0, 0, 1, 1), URect(1, 0, 1, 2), URect(0, 0, 3, 2)}
Entries == {<<path, rect>> : path \in {None, Some("a")}, rect \in EntryRects}
FormatOptions == {None} \cup {Some(f) : f \in ImageFormats}
EntryLists == SeqsUpTo(Entries, MaxEntries)

\* Image files a caller can hand to the direct loader: whole ones and a
\* truncated one.
PlainImage(w, h) == [size |-> <<w, h>>, data |-> <<>>]
Files ==
    {Encoded(PlainImage(2, 2), "Png"), Encoded(PlainImage(1, 3), "Png"),
     Encoded(PlainImage(2, 2), "Jpeg"), <<"Png">>}

\* ------------------------------------------------------------------- state
NoImage == [size |-> <<0, 0>>, data |-> <<>>]
NoAsset ==
    [layout |-> [size |-> <<0, 0>>, textures |-> <<>>], texture |-> NoImage,
     paths |-> PathsDefault]
NoSettings == [format |-> None, textures |-> <<>>]
NoPath == [stem |-> "", ext |-> ""]
Pending == [tag |-> "None", err |-> "", asset |-> NoAsset]
Ok(asset) == [tag |-> "Ok", err |-> "", asset |-> asset]
Err(e) == [tag |-> "Err", err |-> e, asset |-> NoAsset]

VARIABLES
    \* TextureAtlasBuildLoader::load
    b_pc,             \* "idle", "loading" (the first loop), "done"
    config,           \* BuildLoaderConfig.textures
    texture_assets,   \* the images loaded so far
    load_failed,      \* the index of the source whose load returned Err, else 0
    b_builder,        \* the textures handed to builder.add_texture, in order
    b_labeled,        \* labels registered with add_labeled_asset
    b_result,         \* what load returned
    \* TextureAtlasSaver::save
    s_pc,             \* "idle", "writing" (inside write_all), "done"
    s_format,         \* SaverSettings.format
    s_labeled,        \* labels the SavedAsset carries
    png_buf,          \* the encoded image
    writer,           \* the bytes the Writer has received
    s_result,         \* what save returned: tag, err, settings
    \* TextureAtlasLoader::load
    l_pc,             \* "idle", "awaiting" (the nested image load), "done"
    l_origin,         \* "processed": run on what save wrote; "direct": on a caller's input
    l_asset_path,     \* load_context.asset_path()
    l_settings,       \* LoaderSettings
    l_reader,         \* `reader`: whether it can be read, and its bytes
    internal_asset_path,
    image_format,     \* the format the image loader decoded with, if any
    l_labeled,
    l_result

b_vars == <<b_pc, config, texture_assets, load_failed, b_builder, b_labeled,
            b_result>>
s_vars == <<s_pc, s_format, s_labeled, png_buf, writer, s_result>>
l_vars == <<l_pc, l_origin, l_asset_path, l_settings, l_reader,
            internal_asset_path, image_format, l_labeled, l_result>>
vars == <<b_vars, s_vars, l_vars>>

Init ==
    /\ b_pc = "idle" /\ config = <<>> /\ texture_assets = <<>> /\ load_failed = 0
    /\ b_builder = <<>> /\ b_labeled = {} /\ b_result = Pending
    /\ s_pc = "idle" /\ s_format = "Png" /\ s_labeled = {}
    /\ png_buf = <<>> /\ writer = <<>>
    /\ s_result = [tag |-> "None", err |-> "", settings |-> NoSettings]
    /\ l_pc = "idle" /\ l_origin = "" /\ l_asset_path = NoPath
    /\ l_settings = NoSettings /\ l_reader = [ok |-> FALSE, bytes |-> <<>>]
    /\ internal_asset_path = NoPath /\ image_format = None
    /\ l_labeled = {} /\ l_result = Pending

\* ------------------------------------------- TextureAtlasBuildLoader::load
\* Lines 175-183: read and parse the descriptor.  A read or parse error
\* returns before anything is loaded.
BuildStart ==
    /\ b_pc = "idle" /\ l_pc = "idle"
    /\ \E cfg \in SeqsUpTo(SourceIds, MaxSources), e \in {"", "Io", "RonSpannedError"} :
          IF e = ""
          THEN /\ config' = cfg
               /\ b_pc' = "loading"
               /\ UNCHANGED b_result
          ELSE /\ b_result' = Err(e)
               /\ b_pc' = "done"
               /\ UNCHANGED config
    /\ UNCHANGED <<texture_assets, load_failed, b_builder, b_labeled, s_vars, l_vars>>

\* The first loop with a failed load replaced by Image::default() and the
\* build carried on.
BuildLoadTextureDefault ==
    /\ b_pc = "loading"
    /\ Len(texture_assets) < Len(config)
    /\ \E loaded \in BOOLEAN :
          IF loaded
          THEN /\ texture_assets' =
                     Append(texture_assets, Resolve(config[Len(texture_assets) + 1]))
               /\ UNCHANGED load_failed
          ELSE /\ load_failed' = Len(texture_assets) + 1
               /\ texture_assets' =
                     Append(texture_assets, SourceImage("default", 1, 1))
    /\ UNCHANGED <<b_pc, b_result, config, b_builder, b_labeled, s_vars, l_vars>>

\* Lines 185-195, one iteration: the next source is loaded and awaited; `?`
\* returns the LoadDirectError of a failed load.
BuildLoadTexture ==
    /\ b_pc = "loading"
    /\ Len(texture_assets) < Len(config)
    /\ \E loaded \in BOOLEAN :
          IF loaded
          THEN /\ texture_assets' =
                     Append(texture_assets, Resolve(config[Len(texture_assets) + 1]))
               /\ UNCHANGED <<b_pc, b_result, load_failed>>
          ELSE /\ load_failed' = Len(texture_assets) + 1
               /\ b_result' = Err("LoadDirect")
               /\ b_pc' = "done"
               /\ UNCHANGED texture_assets
    /\ UNCHANGED <<config, b_builder, b_labeled, s_vars, l_vars>>

\* The second loop pairing path i with the textures in the reverse order.
RECURSIVE ZipAddReversed(_, _, _)
ZipAddReversed(cfg, assets, acc) ==
    LET i == Len(acc.builder) + 1
    IN  IF i > Min(Len(cfg), Len(assets)) THEN acc
        ELSE ZipAddReversed(cfg, assets,
                            [paths |-> PathsAdd(acc.paths, Some(cfg[i])),
                             builder |-> Append(acc.builder,
                                                assets[Len(assets) + 1 - i])])

\* Lines 197-206: paths and builder filled from config zipped with the
\* loaded textures.
RECURSIVE ZipAdd(_, _, _)
ZipAdd(cfg, assets, acc) ==
    LET i == Len(acc.builder) + 1
    IN  IF i > Min(Len(cfg), Len(assets)) THEN acc
        ELSE ZipAdd(cfg, assets,
                    [paths |-> PathsAdd(acc.paths, Some(cfg[i])),
                     builder |-> Append(acc.builder, assets[i])])

\* Lines 197-219: after the last load nothing is awaited: the second loop,
\* builder.build() and the return are one step.
BuildFinish ==
    /\ b_pc = "loading"
    /\ Len(texture_assets) = Len(config)
    /\ LET filled == ZipAdd(config, texture_assets,
                            [paths |-> PathsDefault, builder |-> <<>>])
       IN  /\ b_builder' = filled.builder
           /\ \E built \in BuilderBuild(filled.builder) :
                 IF built.tag = "Err"
                 THEN /\ b_result' = Err("TextureAtlasBuilder")
                      /\ UNCHANGED b_labeled
                 ELSE /\ b_labeled' = {"layout", "texture"}
                      /\ b_result' = Ok([layout |-> built.layout,
                                         texture |-> built.texture,
                                         paths |-> filled.paths])
    /\ b_pc' = "done"
    /\ UNCHANGED <<config, texture_assets, load_failed, s_vars, l_vars>>

\* ------------------------------------------------- TextureAtlasSaver::save
Zip(a, b) == [i \in 1..Min(Len(a), Len(b)) |-> <<a[i], b[i]>>]

\* save with the texture lookup unchecked: a missing texture is encoded as
\* an empty image.
SaveEncodeUnchecked(asset, labeled, format) ==
    IF "layout" \notin labeled
    THEN {[tag |-> "Err", err |-> "MissingLayout", bytes |-> <<>>]}
    ELSE IF AsImageCrateFormat(format) = None
    THEN {[tag |-> "Err", err |-> "InvalidImageFormat", bytes |-> <<>>]}
    ELSE {[tag |-> "Ok", err |-> "", bytes |-> Encoded(asset.texture, format)]}

\* Lines 271-295: everything save does before it touches the writer, as the
\* set of its outcomes: an error, or the encoded image in png_buf.
SaveEncode(asset, labeled, format) ==
    IF "layout" \notin labeled
    THEN {[tag |-> "Err", err |-> "MissingLayout", bytes |-> <<>>]}
    ELSE IF "texture" \notin labeled
    THEN {[tag |-> "Err", err |-> "MissingTexture", bytes |-> <<>>]}
    ELSE IF AsImageCrateFormat(format) = None
    THEN {[tag |-> "Err", err |-> "InvalidImageFormat", bytes |-> <<>>]}
    ELSE {IF w.tag = "Ok"
          THEN [tag |-> "Ok", err |-> "", bytes |-> w.bytes]
          ELSE [tag |-> "Err", err |-> "Image", bytes |-> <<>>] :
             w \in WriteTo(asset.texture, AsImageCrateFormat(format)[1])}

\* The settings built from the layout alone, as From<TextureAtlasLayout>
\* builds them: every entry without its path.
SaveSettingsNoPaths(asset, format) ==
    [format |-> Some(format),
     textures |-> [i \in 1..Len(asset.layout.textures) |->
                      <<None, asset.layout.textures[i]>>]]

\* Lines 299-307: the LoaderSettings save returns.
SaveSettings(asset, format) ==
    [format |-> Some(format),
     textures |-> Zip(asset.paths.path_indices, asset.layout.textures)]

\* Lines 270-295: save is called on an atlas a build produced, with the
\* labeled sub-assets the SavedAsset carries.
SaveStart ==
    /\ s_pc = "idle"
    /\ b_pc = "done" /\ b_result.tag = "Ok"
    /\ \E format \in ImageFormats, labeled \in SUBSET b_labeled :
          /\ s_format' = format
          /\ s_labeled' = labeled
          /\ \E enc \in SaveEncode(b_result.asset, labeled, format) :
                IF enc.tag = "Ok"
                THEN /\ png_buf' = enc.bytes
                     /\ s_pc' = "writing"
                     /\ UNCHANGED s_result
                ELSE /\ s_result' = [tag |-> "Err", err |-> enc.err,
                                     settings |-> NoSettings]
                     /\ s_pc' = "done"
                     /\ UNCHANGED png_buf
    /\ UNCHANGED <<writer, b_vars, l_vars>>

\* write in place of write_all: save returns after the first piece.
SaveWriteOnce ==
    /\ s_pc = "writing"
    /\ \E n \in (Len(writer) + 1)..Len(png_buf) :
          /\ writer' = SubSeq(png_buf, 1, n)
          /\ s_result' = [tag |-> "Ok", err |-> "",
                          settings |-> SaveSettings(b_result.asset, s_format)]
          /\ s_pc' = "done"
    /\ UNCHANGED <<s_format, s_labeled, png_buf, b_vars, l_vars>>

\* Line 296, writer.write_all(&png_buf).await: the writer takes the buffer in
\* one or more pieces; after the last piece save returns Ok(settings).
SaveWrite ==
    /\ s_pc = "writing"
    /\ \E n \in (Len(writer) + 1)..Len(png_buf) :
          /\ writer' = SubSeq(png_buf, 1, n)
          /\ IF n = Len(png_buf)
             THEN /\ s_result' = [tag |-> "Ok", err |-> "",
                                  settings |-> SaveSettings(b_result.asset, s_format)]
                  /\ s_pc' = "done"
             ELSE UNCHANGED <<s_result, s_pc>>
    /\ UNCHANGED <<s_format, s_labeled, png_buf, b_vars, l_vars>>

\* Line 296: a write fails and `?` returns the io::Error.
SaveWriteFail ==
    /\ s_pc = "writing"
    /\ s_result' = [tag |-> "Err", err |-> "Io", settings |-> NoSettings]
    /\ s_pc' = "done"
    /\ UNCHANGED <<s_format, s_labeled, png_buf, writer, b_vars, l_vars>>

\* ------------------------------------------------ TextureAtlasLoader::load
\* Lines 81-87
InternalAssetPath(asset_path, settings) ==
    WithExtension(asset_path,
                  IF settings.format = None THEN "bin"
                  ELSE ToFileExtensions(settings.format[1])[1])

\* Lines 91-102: the format the nested image loader decodes with: the
\* override of with_settings, else the one its path's extension names.
ImageLoaderFormat(settings, path) ==
    IF settings.format # None THEN settings.format ELSE FromExtension(path.ext)

\* The loop adding a path only for an entry that has one.
RECURSIVE AddEntriesNamedOnly(_, _)
AddEntriesNamedOnly(entries, acc) ==
    LET i == Len(acc.textures) + 1
    IN  IF i > Len(entries) THEN acc
        ELSE AddEntriesNamedOnly(entries,
                 [paths |-> IF entries[i][1] = None THEN acc.paths
                            ELSE PathsAdd(acc.paths, entries[i][1]),
                  textures |-> Append(acc.textures, entries[i][2])])

\* Lines 109-118
RECURSIVE AddEntries(_, _)
AddEntries(entries, acc) ==
    LET i == Len(acc.textures) + 1
    IN  IF i > Len(entries) THEN acc
        ELSE AddEntries(entries,
                        [paths |-> PathsAdd(acc.paths, entries[i][1]),
                         textures |-> Append(acc.textures, entries[i][2])])

\* Lines 109-133
LoadAsset(settings, texture) ==
    LET filled == AddEntries(settings.textures,
                             [paths |-> PathsDefault, textures |-> <<>>])
    IN  [layout |-> [size |-> texture.size, textures |-> filled.textures],
         texture |-> texture,
         paths |-> filled.paths]

\* Lines 80-102: up to the nested load being issued.
LoadBegin(origin, asset_path, settings, reader) ==
    /\ l_pc = "idle"
    /\ l_origin' = origin
    /\ l_asset_path' = asset_path
    /\ l_settings' = settings
    /\ l_reader' = reader
    /\ internal_asset_path' = InternalAssetPath(asset_path, settings)
    /\ l_pc' = "awaiting"
    /\ UNCHANGED <<image_format, l_labeled, l_result, b_vars, s_vars>>

\* The asset processor's output loader: load on what save wrote, with the
\* settings save returned.
LoadProcessed ==
    /\ s_pc = "done" /\ s_result.tag = "Ok" /\ l_pc = "idle"
    /\ \E asset_path \in AssetPaths, ok \in BOOLEAN :
          LoadBegin("processed", asset_path, s_result.settings,
                    [ok |-> ok, bytes |-> writer])

\* A caller's load of an image file with settings of its own.
LoadDirect ==
    /\ b_pc = "idle" /\ l_pc = "idle"
    /\ \E textures \in EntryLists, format \in FormatOptions,
          asset_path \in AssetPaths, file \in Files, ok \in BOOLEAN :
          LoadBegin("direct", asset_path,
                    [format |-> format, textures |-> textures],
                    [ok |-> ok, bytes |-> file])

\* Lines 103-133: the nested image load completes.  The image loader reads
\* the reader, settles the format and decodes; an error of any of the three
\* returns through `?`, an image gives the asset.
LoadImage ==
    /\ l_pc = "awaiting"
    /\ LET format == ImageLoaderFormat(l_settings, internal_asset_path)
           decoded == IF format = None THEN Decode(<<>>, "")
                      ELSE Decode(l_reader.bytes, format[1])
       IN  /\ image_format' = IF l_reader.ok THEN format ELSE None
           /\ IF l_reader.ok /\ decoded.tag = "Ok"
              THEN /\ l_labeled' = {"layout", "texture"}
                   /\ l_result' = Ok(LoadAsset(l_settings, decoded.image))
              ELSE /\ l_result' = Err("LoadDirect")
                   /\ UNCHANGED l_labeled
    /\ l_pc' = "done"
    /\ UNCHANGED <<l_origin, l_asset_path, l_settings, l_reader,
                   internal_asset_path, b_vars, s_vars>>

Next ==
    \/ BuildStart
    \/ BuildLoadTexture
    \/ BuildFinish
    \/ SaveStart
    \/ SaveWrite
    \/ SaveWriteFail
    \/ LoadProcessed
    \/ LoadDirect
    \/ LoadImage

Spec == Init /\ [][Next]_vars

\* ------------------------------------------------------------------ claims
IsPrefix(a, b) == Len(a) <= Len(b) /\ SubSeq(b, 1, Len(a)) = a

\* C1: an atlas the build produced, saved with a lossless format and loaded
\* again from the written image with the settings save returned, comes back
\* with the same rects in the same order, the same canvas size and the same
\* path index.
RoundTrip ==
    (/\ l_pc = "done" /\ l_origin = "processed"
     /\ Lossless(s_format) /\ l_reader.ok)
        => /\ l_result.tag = "Ok"
           /\ l_result.asset.layout.textures = b_result.asset.layout.textures
           /\ l_result.asset.layout.size = b_result.asset.layout.size
           /\ l_result.asset.paths = b_result.asset.paths

RoundTripWitness ==
    /\ l_pc = "done" /\ l_origin = "processed" /\ Lossless(s_format)
    /\ l_result.tag = "Ok"
    /\ config = <<"a", "b", "c">>
    /\ l_result.asset.layout.textures[1].min # <<0, 0>>
    /\ l_result.asset.paths.path_indices = <<Some("a"), Some("b"), Some("c")>>

\* C2: every atlas either loader returns has as many path index entries as
\* its layout has rects.
PathIndexLength ==
    /\ b_result.tag = "Ok" =>
          Len(b_result.asset.paths.path_indices)
              = Len(b_result.asset.layout.textures)
    /\ l_result.tag = "Ok" =>
          Len(l_result.asset.paths.path_indices)
              = Len(l_result.asset.layout.textures)

PathIndexLengthWitness ==
    /\ l_result.tag = "Ok" /\ l_origin = "direct"
    /\ Len(l_result.asset.layout.textures) = 2
    /\ l_settings.textures[1][1] = None
    /\ l_settings.textures[2][1] # None

\* C4: a build whose descriptor lists no source fails with the packing error
\* and registers no labeled sub-asset.
EmptySourcesFail ==
    (b_pc = "done" /\ Len(config) = 0
        /\ b_result.err \notin {"Io", "RonSpannedError"})
        => /\ b_result = Err("TextureAtlasBuilder")
           /\ b_labeled = {}

\* C5: in a successful build, path i is source i of the descriptor, texture i
\* handed to the packer is the image source i resolved to, and rect i is where
\* that image lies in the atlas; the images are loaded in descriptor order.
IndexAlignment ==
    /\ \A i \in 1..Len(texture_assets) : texture_assets[i] = Resolve(config[i])
    /\ b_result.tag = "Ok" =>
          LET asset == b_result.asset
          IN  /\ Len(asset.paths.path_indices) = Len(config)
              /\ Len(b_builder) = Len(config)
              /\ Len(asset.layout.textures) = Len(config)
              /\ \A i \in 1..Len(config) :
                    /\ asset.paths.path_indices[i] = Some(config[i])
                    /\ b_builder[i] = Resolve(config[i])
                    /\ Width(asset.layout.textures[i]) = Resolve(config[i]).size[1]
                    /\ Height(asset.layout.textures[i]) = Resolve(config[i]).size[2]
                    /\ asset.texture.data[i] =
                          [px |-> config[i], at |-> asset.layout.textures[i]]

IndexAlignmentWitness ==
    /\ b_result.tag = "Ok"
    /\ Len(config) = 2
    /\ config[1] = "b" /\ config[2] = "c"

\* C6: when the load of a source fails, whichever its position, the build
\* returns the LoadDirect error: the packer is never run, no labeled sub-asset
\* is registered and no atlas is returned.
FailedSourceAborts ==
    load_failed # 0
        => /\ b_pc = "done"
           /\ b_result = Err("LoadDirect")
           /\ b_builder = <<>>
           /\ b_labeled = {}
           /\ s_pc = "idle"

FailedSourceAbortsWitness ==
    /\ load_failed = 2 /\ Len(config) = 2
    /\ b_pc = "done"

\* C7: save on an asset without its "layout" or its "texture" sub-asset fails
\* with MissingLayout or MissingTexture, returns no settings and has written
\* nothing.
MissingSubAsset ==
    (s_pc # "idle" /\ s_labeled # {"layout", "texture"})
        => /\ s_pc = "done"
           /\ s_result.tag = "Err"
           /\ s_result.err = IF "layout" \notin s_labeled THEN "MissingLayout"
                             ELSE "MissingTexture"
           /\ s_result.settings = NoSettings
           /\ writer = <<>>

MissingSubAssetWitness ==
    /\ s_pc = "done" /\ s_labeled = {"layout"}
    /\ s_result.err = "MissingTexture"

ExtensionAutoDetect ==
    (/\ l_pc = "done" /\ l_settings.format = None /\ l_reader.ok
     /\ FromExtension(l_asset_path.ext) # None)
        => image_format = FromExtension(l_asset_path.ext)

\* C10: every rect of an atlas the direct loader returns lies inside the
\* canvas, the loaded image's size.
RectsInsideCanvas ==
    l_result.tag = "Ok"
        => \A i \in 1..Len(l_result.asset.layout.textures) :
              Inside(l_result.asset.layout.textures[i], l_result.asset.layout.size)

====
